---- MODULE Spec2Model ----
(***************************************************************************)
(* A model of the SubstraFL "Torch FedAvg on MNIST" example script         *)
(* (plot_substrafl_torch_fedavg.py).                                       *)
(*                                                                         *)
(* The script is a straight-line program: every top-level statement (or    *)
(* loop iteration) is one action, sequenced by pc.  The compute plan that  *)
(* execute_experiment submits is run by the platform; its round protocol   *)
(* (local training, aggregation, evaluation) is modelled from the script's *)
(* own description of the strategy and from the specification, because     *)
(* the SDK that implements it is not part of the repository.               *)
(*                                                                         *)
(* Abstractions: organization ids and asset keys are small integers, a     *)
(* model is one integer parameter, a local training adds a delta drawn     *)
(* from Deltas to the parameters it starts from.                           *)
(***************************************************************************)
EXTENDS Integers, Sequences, FiniteSets, TLC

VARIABLES
    pc,                     \* position of the script
    orgInfo,                \* organization_id each Client reports, by client index
    clients,                \* the dict clients, as a sequence of <<key, client>>
    ORGS_ID,
    ALGO_ORG_ID,
    DATA_PROVIDER_ORGS_ID,
    i,                      \* index of the running for loop (1-based)
    datasets,               \* platform registry of datasets
    samples,                \* platform registry of data samples
    nextKey,                \* next fresh asset key of the platform
    dataset_keys,
    train_datasample_keys,
    test_datasample_keys,
    metric_key,
    aggregation_node,
    train_data_nodes,
    test_data_nodes,
    my_eval_strategy,
    status,                 \* compute plan: "none", "running", "finished", "failed"
    num_rounds,             \* rounds the compute plan was submitted with
    aggCount,               \* aggregation steps performed so far
    globalParams,           \* current global parameters
    localState,             \* per train node: last round trained, start, params
    failures,               \* set of [org, round] of failed local steps
    roundModel,             \* global parameters after round 1, 2, ...
    lastLocals,             \* shared states the latest aggregation received
    aggregatedOn,           \* per round: organization that aggregated
    avgUpdate,              \* averaged update of the latest aggregation
    performances,           \* performance records of the compute plan
    performances_df,
    downloaded,             \* round whose algo files were downloaded
    model,                  \* the script's variable model
    y_true,                 \* metric inputs and result
    y_pred,
    score

registryVars == <<datasets, samples, nextKey, dataset_keys,
                  train_datasample_keys, test_datasample_keys, metric_key>>
setupVars == <<orgInfo, clients, ORGS_ID, ALGO_ORG_ID, DATA_PROVIDER_ORGS_ID>>
nodeVars == <<aggregation_node, train_data_nodes, test_data_nodes,
              my_eval_strategy>>
planVars == <<status, num_rounds, aggCount, globalParams, localState,
              failures, roundModel, lastLocals, aggregatedOn, avgUpdate,
              performances>>
resultVars == <<performances_df, downloaded, model>>
metricVars == <<y_true, y_pred, score>>
vars == <<pc, i, setupVars, registryVars, nodeVars, planVars, resultVars,
          metricVars>>

None == 0

----------------------------------------------------------------------------
(* Bounds of the model *)

NumOrgIds == 4          \* organization ids a Client may report: 1..NumOrgIds
MaxDelta == 2           \* a local training moves the parameter by 0..MaxDelta
MaxSamples == 2         \* test samples scored by the metric
MaxScore == 1           \* prediction scores are 0..MaxScore

OrgIds == 1..NumOrgIds
Deltas == 0..MaxDelta

----------------------------------------------------------------------------
(* Program constants *)

N_CLIENTS == 3
NUM_UPDATES == 100
BATCH_SIZE == 32
NUM_ROUNDS == 3
NumClasses == 2         \* classes of the abstracted classifier (10 in the CNN)
InitModel == 0          \* parameters of CNN() under the fixed seed

----------------------------------------------------------------------------
(* Helpers on sequences and Python dicts *)

Range(s) == {s[k] : k \in 1..Len(s)}

\* d[k] = v on a dict kept as a sequence of <<key, value>> in insertion
\* order: an existing key keeps its position and takes the new value.
DictSet(d, k, v) ==
    IF \E n \in 1..Len(d) : d[n][1] = k
    THEN [n \in 1..Len(d) |-> IF d[n][1] = k THEN <<k, v>> ELSE d[n]]
    ELSE Append(d, <<k, v>>)

DictKeys(d) == [n \in 1..Len(d) |-> d[n][1]]

DictGet(d, k) == (CHOOSE n \in 1..Len(d) : d[n][1] = k) \* index
DictValue(d, k) == d[DictGet(d, k)][2]

----------------------------------------------------------------------------
(* Setup: lines 45-67 *)

\* The dict literal of lines 57-61.
ClientsDict(info) ==
    DictSet(DictSet(DictSet(<<>>, info[1], 1), info[2], 2), info[3], 3)

CreateClients ==
    /\ pc = "clients"
    /\ clients' = ClientsDict(orgInfo)
    /\ pc' = "org_ids"
    /\ UNCHANGED <<i, orgInfo, ORGS_ID, ALGO_ORG_ID, DATA_PROVIDER_ORGS_ID,
                   registryVars, nodeVars, planVars, resultVars, metricVars>>

\* ORGS_ID[2:] written for ORGS_ID[1:]
DataProvidersFromThird(ids) == SubSeq(ids, 3, Len(ids))

\* ORGS_ID[1:]
DataProviders(ids) == SubSeq(ids, 2, Len(ids))

StoreOrgIds ==
    /\ pc = "org_ids"
    /\ ORGS_ID' = DictKeys(clients)
    /\ ALGO_ORG_ID' = DictKeys(clients)[1]
    /\ DATA_PROVIDER_ORGS_ID' = DataProviders(DictKeys(clients))
    /\ pc' = IF Len(DataProviders(DictKeys(clients))) >= 1
             THEN "add_dataset" ELSE "add_metric"
    /\ i' = 1
    /\ UNCHANGED <<orgInfo, clients, registryVars, nodeVars, planVars,
                   resultVars, metricVars>>

SetupNext == CreateClients \/ StoreOrgIds

----------------------------------------------------------------------------
(* Dataset registration: lines 120-160 *)

EmptyDict == [o \in {} |-> None]

\* clients[org_id]: the Client stored under the key, and the organization
\* that Client acts for.
ClientOf(org_id) == DictValue(clients, org_id)
OwnerOf(org_id) == orgInfo[ClientOf(org_id)]

\* Permissions(public=False, authorized_ids=[ALGO_ORG_ID])
PermissionsDataset == [public |-> FALSE, authorized_ids |-> <<ALGO_ORG_ID>>]

\* every sample attached to the dataset of the first data provider
SampleDatasetKeysOfFirst(org_id) ==
    <<dataset_keys[DATA_PROVIDER_ORGS_ID[1]]>>

\* data_manager_keys=[dataset_keys[org_id]] of both DataSampleSpec
SampleDatasetKeys(org_id) == <<dataset_keys[org_id]>>

LoopOrg == DATA_PROVIDER_ORGS_ID[i]

\* client.add_dataset(dataset): the platform stores the dataset under a
\* fresh key and returns the key.
AddDataset ==
    /\ pc = "add_dataset"
    /\ i <= Len(DATA_PROVIDER_ORGS_ID)
    /\ datasets' = datasets \cup
           {[key |-> nextKey, owner |-> OwnerOf(LoopOrg), name |-> "MNIST",
             permissions |-> PermissionsDataset]}
    /\ dataset_keys' = (LoopOrg :> nextKey) @@ dataset_keys
    /\ nextKey' = nextKey + 1
    /\ pc' = "add_train_sample"
    /\ UNCHANGED <<i, setupVars, samples, train_datasample_keys,
                   test_datasample_keys, metric_key, nodeVars, planVars,
                   resultVars, metricVars>>

AddTrainSample ==
    /\ pc = "add_train_sample"
    /\ samples' = samples \cup
           {[key |-> nextKey, owner |-> OwnerOf(LoopOrg),
             data_manager_keys |-> SampleDatasetKeys(LoopOrg),
             test_only |-> FALSE, path |-> <<i, "train">>]}
    /\ train_datasample_keys' = (LoopOrg :> nextKey) @@ train_datasample_keys
    /\ nextKey' = nextKey + 1
    /\ pc' = "add_test_sample"
    /\ UNCHANGED <<i, setupVars, datasets, dataset_keys, test_datasample_keys,
                   metric_key, nodeVars, planVars, resultVars, metricVars>>

AddTestSample ==
    /\ pc = "add_test_sample"
    /\ samples' = samples \cup
           {[key |-> nextKey, owner |-> OwnerOf(LoopOrg),
             data_manager_keys |-> SampleDatasetKeys(LoopOrg),
             test_only |-> TRUE, path |-> <<i, "test">>]}
    /\ test_datasample_keys' = (LoopOrg :> nextKey) @@ test_datasample_keys
    /\ nextKey' = nextKey + 1
    /\ i' = i + 1
    /\ pc' = IF i + 1 <= Len(DATA_PROVIDER_ORGS_ID)
             THEN "add_dataset" ELSE "add_metric"
    /\ UNCHANGED <<setupVars, datasets, dataset_keys, train_datasample_keys,
                   metric_key, nodeVars, planVars, resultVars, metricVars>>

----------------------------------------------------------------------------
(* Metric registration: lines 185-206 *)

\* np.argmax(row): the first index holding the maximum, counted from 0.
ArgMax(row) ==
    (CHOOSE k \in 1..Len(row) :
        /\ \A m \in 1..Len(row) : row[m] <= row[k]
        /\ \A m \in 1..(k - 1) : row[m] < row[k]) - 1

\* np.argmax(y_pred, axis=1)
ArgMaxRows(pred) == [n \in 1..Len(pred) |-> ArgMax(pred[n])]

\* accuracy_score(y_true, y_hat): the fraction of positions that agree,
\* kept as <<correct, total>>.
RECURSIVE CountEqual(_, _)
CountEqual(a, b) ==
    IF a = <<>> THEN 0
    ELSE (IF Head(a) = Head(b) THEN 1 ELSE 0) + CountEqual(Tail(a), Tail(b))

AccuracyScore(labels, y_hat) == <<CountEqual(labels, y_hat), Len(labels)>>

\* np.argmin written for np.argmax
ArgMin(row) ==
    (CHOOSE k \in 1..Len(row) :
        /\ \A m \in 1..Len(row) : row[k] <= row[m]
        /\ \A m \in 1..(k - 1) : row[k] < row[m]) - 1

accuracyArgMin(labels, pred) ==
    AccuracyScore(labels, [n \in 1..Len(pred) |-> ArgMin(pred[n])])

\* def accuracy(datasamples, predictions_path)
accuracy(labels, pred) == AccuracyScore(labels, ArgMaxRows(pred))

AddMetric ==
    /\ pc = "add_metric"
    /\ metric_key' = nextKey
    /\ nextKey' = nextKey + 1
    /\ pc' = "aggregation_node"
    /\ UNCHANGED <<i, setupVars, datasets, samples, dataset_keys,
                   train_datasample_keys, test_datasample_keys, nodeVars,
                   planVars, resultVars, metricVars>>

----------------------------------------------------------------------------
(* Nodes and evaluation strategy: lines 375-422 *)

CreateAggregationNode ==
    /\ pc = "aggregation_node"
    /\ aggregation_node' = [organization_id |-> ALGO_ORG_ID]
    /\ train_data_nodes' = <<>>
    /\ i' = 1
    /\ pc' = "train_nodes"
    /\ UNCHANGED <<setupVars, registryVars, test_data_nodes, my_eval_strategy,
                   planVars, resultVars, metricVars>>

\* only the first data provider gets a train data node
TrainNodeOrgsFirstOnly == SubSeq(DATA_PROVIDER_ORGS_ID, 1, 1)

\* for org_id in DATA_PROVIDER_ORGS_ID (line 383)
TrainNodeOrgs == DATA_PROVIDER_ORGS_ID

\* data_sample_keys=[train_datasample_keys[org_id]]
TrainNodeSampleKeys(org_id) == <<train_datasample_keys[org_id]>>

AppendTrainNode ==
    /\ pc = "train_nodes"
    /\ i <= Len(TrainNodeOrgs)
    /\ train_data_nodes' = Append(train_data_nodes,
           [organization_id |-> TrainNodeOrgs[i],
            data_manager_key |-> dataset_keys[TrainNodeOrgs[i]],
            data_sample_keys |-> TrainNodeSampleKeys(TrainNodeOrgs[i])])
    /\ i' = i + 1
    /\ UNCHANGED <<pc, setupVars, registryVars, aggregation_node,
                   test_data_nodes, my_eval_strategy, planVars, resultVars,
                   metricVars>>

\* the loop of line 383 is exhausted; test_data_nodes = list()
EndTrainNodes ==
    /\ pc = "train_nodes"
    /\ i > Len(TrainNodeOrgs)
    /\ test_data_nodes' = <<>>
    /\ i' = 1
    /\ pc' = "test_nodes"
    /\ UNCHANGED <<setupVars, registryVars, aggregation_node, train_data_nodes,
                   my_eval_strategy, planVars, resultVars, metricVars>>

AppendTestNode ==
    /\ pc = "test_nodes"
    /\ i <= Len(DATA_PROVIDER_ORGS_ID)
    /\ test_data_nodes' = Append(test_data_nodes,
           [organization_id |-> LoopOrg,
            data_manager_key |-> dataset_keys[LoopOrg],
            test_data_sample_keys |-> <<test_datasample_keys[LoopOrg]>>,
            metric_keys |-> <<metric_key>>])
    /\ i' = i + 1
    /\ UNCHANGED <<pc, setupVars, registryVars, aggregation_node,
                   train_data_nodes, my_eval_strategy, planVars, resultVars,
                   metricVars>>

\* rounds=2: test every second round
EvalRoundsTwo == 1 + 1

\* rounds=1 of EvaluationStrategy: test at the end of every round
EvalRounds == 1

CreateEvalStrategy ==
    /\ pc = "test_nodes"
    /\ i > Len(DATA_PROVIDER_ORGS_ID)
    /\ my_eval_strategy' = [test_data_nodes |-> test_data_nodes,
                            rounds |-> EvalRounds]
    /\ pc' = "execute"
    /\ UNCHANGED <<i, setupVars, registryVars, aggregation_node,
                   train_data_nodes, test_data_nodes, planVars, resultVars,
                   metricVars>>

----------------------------------------------------------------------------
(* Running the experiment: lines 445-464 *)

\* num_rounds=NUM_ROUNDS + 1
NumRoundsOneMore == NUM_ROUNDS + 1

\* num_rounds=NUM_ROUNDS
NumRoundsArg == NUM_ROUNDS

TrainOrgs == {train_data_nodes[n].organization_id :
                 n \in 1..Len(train_data_nodes)}
TestOrgs == {my_eval_strategy.test_data_nodes[n].organization_id :
                 n \in 1..Len(my_eval_strategy.test_data_nodes)}

\* execute_experiment registers the compute plan; the platform then runs it.
ExecuteExperiment ==
    /\ pc = "execute"
    /\ status' = "running"
    /\ num_rounds' = NumRoundsArg
    /\ aggCount' = 0
    /\ globalParams' = InitModel
    /\ localState' = [o \in TrainOrgs |->
                         [round |-> 0, start |-> InitModel,
                          params |-> InitModel]]
    /\ pc' = "wait"
    /\ UNCHANGED <<i, setupVars, registryVars, nodeVars, failures, roundModel,
                   lastLocals, aggregatedOn, avgUpdate, performances,
                   resultVars, metricVars>>

----------------------------------------------------------------------------
(* The federated-averaging rounds the platform runs for the compute plan.  *)
(* "Train locally a model on every organization, then aggregate the weight *)
(* updates from every organization, and then apply locally at each         *)
(* organization the averaged updates" (lines 355-358).                     *)

RECURSIVE SumOver(_, _)
SumOver(S, f) ==
    IF S = {} THEN 0
    ELSE LET x == CHOOSE y \in S : TRUE
         IN f[x] + SumOver(S \ {x}, f)

\* a sample count that differs from node to node
NSamplesByOrg(o) == NUM_UPDATES * BATCH_SIZE * o

\* Samples a node uses in one round: every node runs the one index_generator
\* (num_updates batches of batch_size samples).
NSamples(o) == NUM_UPDATES * BATCH_SIZE

\* the averaged update applied to the node's own trained parameters
LocalStartStale(o) == localState[o].params + avgUpdate

\* Parameters a node starts a round from: the parameters it started the
\* previous round from, with the averaged update applied locally.
LocalStart(o) == localState[o].start + avgUpdate

PlanActive == status = "running" /\ failures = {}

CanTrain(o) ==
    /\ PlanActive
    /\ o \in TrainOrgs
    /\ aggCount < num_rounds
    /\ localState[o].round = aggCount

\* One local training of round aggCount + 1 on node o.
LocalTrain(o) ==
    /\ CanTrain(o)
    /\ \E d \in Deltas :
          localState' = [localState EXCEPT ![o] =
              [round |-> aggCount + 1, start |-> LocalStart(o),
               params |-> LocalStart(o) + d]]
    /\ UNCHANGED <<pc, i, setupVars, registryVars, nodeVars, status,
                   num_rounds, aggCount, globalParams, failures, roundModel,
                   lastLocals, aggregatedOn, avgUpdate, performances,
                   resultVars, metricVars>>

\* The local step of node o fails: the compute plan fails.
LocalTrainFails(o) ==
    /\ CanTrain(o)
    /\ failures' = failures \cup {[org |-> o, round |-> aggCount + 1]}
    /\ status' = "failed"
    /\ UNCHANGED <<pc, i, setupVars, registryVars, nodeVars, num_rounds,
                   aggCount, globalParams, localState, roundModel,
                   lastLocals, aggregatedOn, avgUpdate, performances,
                   resultVars, metricVars>>

\* Nodes whose local update of the current round is available.
Contributors == {o \in TrainOrgs : localState[o].round = aggCount + 1}

\* aggregate over the nodes that succeeded once every node has either
\* delivered its update or failed
CanAggregatePartial ==
    /\ status \in {"running", "failed"}
    /\ \A o \in TrainOrgs :
          \/ localState[o].round = aggCount + 1
          \/ \E f \in failures : f.org = o /\ f.round = aggCount + 1

\* The aggregation of the current round may run: every train data node has
\* delivered its update and no local step has failed.
CanAggregate ==
    /\ status = "running"
    /\ failures = {}
    /\ \A o \in TrainOrgs : localState[o].round = aggCount + 1

\* Average of the nodes' parameter updates, weighted by their sample counts.
AvgSharedStates(S) ==
    SumOver(S, [o \in S |->
                  NSamples(o) * (localState[o].params - localState[o].start)])
      \div SumOver(S, [o \in S |-> NSamples(o)])

Aggregate ==
    /\ CanAggregate
    /\ aggCount < num_rounds
    /\ Contributors # {}
    /\ avgUpdate' = AvgSharedStates(Contributors)
    /\ globalParams' = globalParams + AvgSharedStates(Contributors)
    /\ roundModel' = Append(roundModel,
                            globalParams + AvgSharedStates(Contributors))
    /\ lastLocals' = [o \in Contributors |->
           [start |-> localState[o].start, params |-> localState[o].params,
            n_samples |-> NSamples(o)]]
    /\ aggregatedOn' = Append(aggregatedOn, aggregation_node.organization_id)
    /\ aggCount' = aggCount + 1
    /\ UNCHANGED <<pc, i, setupVars, registryVars, nodeVars, status,
                   num_rounds, localState, failures, performances, resultVars,
                   metricVars>>

\* EvaluationStrategy(rounds=K): test at the end of every K-th round.
ShouldTest(r) == r % my_eval_strategy.rounds = 0

\* Held-out labels of an organization and the predictions a model makes on
\* them (an abstract, deterministic forward pass in eval mode).
TestLabels(o) == [n \in 1..MaxSamples |-> (n + o) % NumClasses]
Predict(params, o) ==
    [n \in 1..MaxSamples |->
        [c \in 1..NumClasses |->
            IF c - 1 = (params + n) % NumClasses THEN MaxScore ELSE 0]]

Recorded(o, r) ==
    \E p \in performances : p.worker = o /\ p.round_idx = r

\* The model of round r is scored on the test data of node o.
Evaluate(o, r) ==
    /\ PlanActive
    /\ o \in TestOrgs
    /\ r \in 1..aggCount
    /\ ShouldTest(r)
    /\ ~Recorded(o, r)
    /\ performances' = performances \cup
           {[worker |-> o, round_idx |-> r, evaluated |-> roundModel[r],
             performance |-> accuracy(TestLabels(o),
                                      Predict(roundModel[r], o))]}
    /\ UNCHANGED <<pc, i, setupVars, registryVars, nodeVars, status,
                   num_rounds, aggCount, globalParams, localState, failures,
                   roundModel, lastLocals, aggregatedOn, avgUpdate,
                   resultVars, metricVars>>

\* Every task of the compute plan is done.
Finish ==
    /\ PlanActive
    /\ aggCount = num_rounds
    /\ \A o \in TestOrgs : \A r \in 1..num_rounds :
          ShouldTest(r) => Recorded(o, r)
    /\ status' = "finished"
    /\ UNCHANGED <<pc, i, setupVars, registryVars, nodeVars, num_rounds,
                   aggCount, globalParams, localState, failures, roundModel,
                   lastLocals, aggregatedOn, avgUpdate, performances,
                   resultVars, metricVars>>

PlanNext ==
    \/ \E o \in OrgIds : LocalTrain(o)
    \/ \E o \in OrgIds : LocalTrainFails(o)
    \/ Aggregate
    \/ \E o \in OrgIds : \E r \in 1..NUM_ROUNDS + 1 : Evaluate(o, r)
    \/ Finish

----------------------------------------------------------------------------
(* Results: lines 475-523 *)

\* execute_experiment raises when the compute plan failed.
ExperimentRaises ==
    /\ pc = "wait"
    /\ status = "failed"
    /\ pc' = "error"
    /\ UNCHANGED <<i, setupVars, registryVars, nodeVars, planVars, resultVars,
                   metricVars>>

\* client.get_performances(compute_plan.key); client is the Client the loop
\* of line 125 left bound, that of the last data provider.
GetPerformances ==
    /\ pc = "wait"
    /\ status = "finished"
    /\ performances_df' = performances
    /\ pc' = "download"
    /\ UNCHANGED <<i, setupVars, registryVars, nodeVars, planVars, downloaded,
                   model, metricVars>>

\* round_idx = NUM_ROUNDS - 1: an earlier round
RoundIdxEarlier == NUM_ROUNDS - 1

\* round_idx = None
RoundIdxArg == None

\* "If round_idx is set to None, the last round will be selected by default."
SelectedRound(round_idx) ==
    IF round_idx = None THEN num_rounds ELSE round_idx

DownloadAlgoFiles ==
    /\ pc = "download"
    /\ downloaded' = SelectedRound(RoundIdxArg)
    /\ pc' = "load"
    /\ UNCHANGED <<i, setupVars, registryVars, nodeVars, planVars,
                   performances_df, model, metricVars>>

\* model = load_algo(input_folder=algo_files_folder).model
LoadAlgo ==
    /\ pc = "load"
    /\ model' = roundModel[downloaded]
    /\ pc' = "end"
    /\ UNCHANGED <<i, setupVars, registryVars, nodeVars, planVars,
                   performances_df, downloaded, metricVars>>

----------------------------------------------------------------------------
(* Specifications *)

InitRest ==
    /\ pc = "clients"
    /\ clients = <<>>
    /\ ORGS_ID = <<>>
    /\ ALGO_ORG_ID = None
    /\ DATA_PROVIDER_ORGS_ID = <<>>
    /\ i = 1
    /\ datasets = {}
    /\ samples = {}
    /\ nextKey = 1
    /\ dataset_keys = EmptyDict
    /\ train_datasample_keys = EmptyDict
    /\ test_datasample_keys = EmptyDict
    /\ metric_key = None
    /\ aggregation_node = [organization_id |-> None]
    /\ train_data_nodes = <<>>
    /\ test_data_nodes = <<>>
    /\ my_eval_strategy = [test_data_nodes |-> <<>>, rounds |-> None]
    /\ status = "none"
    /\ num_rounds = 0
    /\ aggCount = 0
    /\ globalParams = InitModel
    /\ localState = EmptyDict
    /\ failures = {}
    /\ roundModel = <<>>
    /\ lastLocals = EmptyDict
    /\ aggregatedOn = <<>>
    /\ avgUpdate = 0
    /\ performances = {}
    /\ performances_df = {}
    /\ downloaded = None
    /\ model = InitModel

NoScore == <<>>

NoMetricCall ==
    /\ y_true = <<>>
    /\ y_pred = <<>>
    /\ score = NoScore

Distinct(info) ==
    \A a, b \in 1..Len(info) : a # b => info[a] # info[b]

\* The example as it is run: three Clients, one per organization, the
\* platform handing out the three ids in one order or another.
ExampleOrgInfos == {<<1, 2, 3>>, <<3, 1, 2>>}

Init ==
    /\ orgInfo \in ExampleOrgInfos
    /\ InitRest
    /\ NoMetricCall

Next ==
    \/ CreateClients
    \/ StoreOrgIds
    \/ AddDataset
    \/ AddTrainSample
    \/ AddTestSample
    \/ AddMetric
    \/ CreateAggregationNode
    \/ AppendTrainNode
    \/ EndTrainNodes
    \/ AppendTestNode
    \/ CreateEvalStrategy
    \/ ExecuteExperiment
    \/ PlanNext
    \/ ExperimentRaises
    \/ GetPerformances
    \/ DownloadAlgoFiles
    \/ LoadAlgo

Spec == Init /\ [][Next]_vars

\* The script runs to its end and the platform runs every task that is ready.
FairSpec == Spec /\ WF_vars(Next)

\* The setup section alone, for whatever ids the three Clients report.
SetupInit ==
    /\ orgInfo \in [1..N_CLIENTS -> OrgIds]
    /\ InitRest
    /\ NoMetricCall

SetupSpec == SetupInit /\ [][SetupNext]_vars

\* The metric function alone, on bounded labels and predictions.
MetricInit ==
    /\ orgInfo = [c \in 1..N_CLIENTS |-> c]
    /\ InitRest
    /\ \E n \in 1..MaxSamples :
          /\ y_true \in [1..n -> 0..(NumClasses - 1)]
          /\ y_pred \in [1..n -> [1..NumClasses -> 0..MaxScore]]
    /\ score = NoScore

CallAccuracy ==
    /\ score = NoScore
    /\ score' = accuracy(y_true, y_pred)
    /\ UNCHANGED <<pc, i, setupVars, registryVars, nodeVars, planVars,
                   resultVars, y_true, y_pred>>

MetricSpec == MetricInit /\ [][CallAccuracy]_vars

----------------------------------------------------------------------------
(* Properties *)

SetupDone == pc \notin {"clients", "org_ids"}
Providers == Range(DATA_PROVIDER_ORGS_ID)

ThreeOrganizations ==
    /\ Len(clients) = N_CLIENTS
    /\ Len(ORGS_ID) = N_CLIENTS
    /\ Distinct(ORGS_ID)
    /\ Len(DATA_PROVIDER_ORGS_ID) = N_CLIENTS - 1
    /\ ALGO_ORG_ID \notin Providers

\* C7 as stated: after the setup section, whatever organization ids the
\* three Clients report, ORGS_ID has 3 distinct entries,
\* DATA_PROVIDER_ORGS_ID has 2 and ALGO_ORG_ID is not one of them.
C7_AnyIdsThreeOrganizations == SetupDone => ThreeOrganizations

\* C7 amended: the same, provided the three Clients report pairwise
\* distinct organization ids; every key of clients then maps to the Client
\* that reported it.
C7_DistinctIdsThreeOrganizations ==
    (SetupDone /\ Distinct(orgInfo)) =>
        /\ ThreeOrganizations
        /\ ALGO_ORG_ID = orgInfo[1]
        /\ DATA_PROVIDER_ORGS_ID = <<orgInfo[2], orgInfo[3]>>
        /\ \A c \in 1..N_CLIENTS : DictValue(clients, orgInfo[c]) = c

C7_Witness ==
    /\ SetupDone
    /\ Distinct(orgInfo)
    /\ Len(DATA_PROVIDER_ORGS_ID) = 2
    /\ orgInfo[1] > orgInfo[3]

\* Label l is the class np.argmax picks in the row: the row's maximum, and
\* no earlier class reaches it.
Predicted(row, l) ==
    /\ l + 1 \in 1..Len(row)
    /\ \A m \in 1..Len(row) : row[m] <= row[l + 1]
    /\ \A m \in 1..l : row[m] < row[l + 1]

Matches == {n \in 1..Len(y_true) : Predicted(y_pred[n], y_true[n])}

\* C9: on aligned labels and predictions of equal non-zero length the
\* accuracy is correct/total with total the number of samples, correct the
\* number of rows whose argmax is the label, 0 <= correct <= total; it is
\* 1 exactly when every row matches and 0 exactly when none does.
C9_AccuracyInUnitInterval ==
    score # NoScore =>
        /\ score[2] = Len(y_true)
        /\ score[2] > 0
        /\ score[1] = Cardinality(Matches)
        /\ 0 <= score[1] /\ score[1] <= score[2]
        /\ (score[1] = score[2]) <=> (Matches = 1..Len(y_true))
        /\ (score[1] = 0) <=> (Matches = {})

C9_Witness ==
    /\ score # NoScore
    /\ 0 < score[1]
    /\ score[1] < score[2]

DatasetOf(key) == {d \in datasets : d.key = key}
SampleOf(key) == {x \in samples : x.key = key}

NodeConsistent(org, data_manager_key, sample_keys, test_only) ==
    /\ org \in Providers
    /\ \E d \in DatasetOf(data_manager_key) : d.owner = org
    /\ Len(sample_keys) = 1
    /\ \A n \in 1..Len(sample_keys) :
          /\ SampleOf(sample_keys[n]) # {}
          /\ \A x \in SampleOf(sample_keys[n]) :
                /\ x.owner = org
                /\ data_manager_key \in Range(x.data_manager_keys)
                /\ x.test_only = test_only

RegistrationComplete ==
    /\ Cardinality(datasets) = Len(DATA_PROVIDER_ORGS_ID)
    /\ Cardinality(samples) = 2 * Len(DATA_PROVIDER_ORGS_ID)
    /\ {train_data_nodes[n].organization_id :
           n \in 1..Len(train_data_nodes)} = Providers
    /\ {test_data_nodes[n].organization_id :
           n \in 1..Len(test_data_nodes)} = Providers

\* C10: every data sample references only the dataset its own organization
\* registered before it; every train (test) data node of an organization
\* carries that organization's dataset key and only its test_only=False
\* (test_only=True) sample, registered against that dataset; and once the
\* experiment is submitted all of this is registered.
C10_ReferentialConsistency ==
    /\ \A x \in samples : \A k \in Range(x.data_manager_keys) :
          /\ DatasetOf(k) # {}
          /\ \A d \in DatasetOf(k) : d.owner = x.owner /\ d.key < x.key
    /\ \A d1, d2 \in datasets : d1.key = d2.key => d1 = d2
    /\ \A x1, x2 \in samples : x1.key = x2.key => x1 = x2
    /\ \A n \in 1..Len(train_data_nodes) :
          NodeConsistent(train_data_nodes[n].organization_id,
                         train_data_nodes[n].data_manager_key,
                         train_data_nodes[n].data_sample_keys, FALSE)
    /\ \A n \in 1..Len(test_data_nodes) :
          NodeConsistent(test_data_nodes[n].organization_id,
                         test_data_nodes[n].data_manager_key,
                         test_data_nodes[n].test_data_sample_keys, TRUE)
    /\ status # "none" => RegistrationComplete

C10_Witness ==
    /\ status = "running"
    /\ Len(train_data_nodes) = 2
    /\ Len(test_data_nodes) = 2
    /\ Cardinality(samples) = 4

AfterPerformances == pc \in {"download", "load", "end"}

\* C5: every performance record is that of a data-provider organization
\* and of a round already aggregated, scored on that round's global model;
\* once the experiment has finished there is a record for every
\* (data-provider organization, round in 1..NUM_ROUNDS), and those are the
\* records get_performances returns.
C5_PerformancePerRoundAndOrg ==
    /\ \A p \in performances \cup performances_df :
          /\ p.worker \in Providers
          /\ p.round_idx \in 1..aggCount
          /\ p.evaluated = roundModel[p.round_idx]
    /\ status = "finished" =>
          \A o \in Providers : \A r \in 1..NUM_ROUNDS : Recorded(o, r)
    /\ AfterPerformances =>
          \A o \in Providers : \A r \in 1..NUM_ROUNDS :
             \E p \in performances_df : p.worker = o /\ p.round_idx = r

C5_Witness ==
    /\ AfterPerformances
    /\ Cardinality(performances_df) = 2 * NUM_ROUNDS
    /\ \E p, q \in performances_df : p.performance # q.performance

\* C8: with round_idx = None the model loaded at the end of the script is
\* the model of round NUM_ROUNDS, the last round of the compute plan.
C8_DownloadsLastRound ==
    pc = "end" =>
        /\ downloaded = NUM_ROUNDS
        /\ Len(roundModel) = NUM_ROUNDS
        /\ model = roundModel[NUM_ROUNDS]
        /\ model = globalParams

C8_Witness ==
    /\ pc = "end"
    /\ model # InitModel
    /\ \A r \in 1..(NUM_ROUNDS - 1) : model # roundModel[r]

Submitted == status # "none"
PrevGlobal == IF aggCount <= 1 THEN InitModel ELSE roundModel[aggCount - 1]

C1_Bounded ==
    /\ aggCount <= NUM_ROUNDS
    /\ Len(roundModel) = aggCount
    /\ \A o \in DOMAIN localState : localState[o].round <= NUM_ROUNDS
    /\ status = "finished" => aggCount = NUM_ROUNDS
    /\ (Submitted /\ aggCount = NUM_ROUNDS) =>
          ~ENABLED (Aggregate \/ \E o \in OrgIds : LocalTrain(o))
    /\ (status = "running" /\ failures = {}) => ENABLED PlanNext

\* C1: the experiment runs exactly NUM_ROUNDS rounds: never more than
\* NUM_ROUNDS aggregations, no training or aggregation once the
\* NUM_ROUNDS-th aggregation is done, finished only after NUM_ROUNDS
\* aggregations, and every execution reaches the finished state unless a
\* local step fails.
C1_FixedRounds ==
    /\ []C1_Bounded
    /\ <>(status = "finished" \/ failures # {})

C1_Witness ==
    /\ status = "finished"
    /\ aggCount = NUM_ROUNDS
    /\ failures = {}

C2_Ordered ==
    Submitted =>
        /\ Providers \subseteq DOMAIN localState
        /\ Cardinality(Providers) = N_CLIENTS - 1
        /\ \A o \in Providers :
              /\ aggCount <= localState[o].round
              /\ localState[o].round <= aggCount + 1
        /\ Len(aggregatedOn) = aggCount
        /\ \A r \in 1..Len(aggregatedOn) : aggregatedOn[r] = ALGO_ORG_ID

C2_Step ==
    Submitted =>
        /\ aggCount' \in {aggCount, aggCount + 1}
        /\ aggCount' = aggCount + 1 =>
              \A o \in Providers :
                 /\ localState[o].round = aggCount + 1
                 /\ localState'[o] = localState[o]
        /\ \A o \in Providers :
              localState'[o].round # localState[o].round =>
                 /\ localState'[o].round = aggCount + 1
                 /\ aggCount' = aggCount

\* C2: the aggregation of round r runs on ALGO_ORG_ID, once, and only when
\* both data-provider organizations have completed their local training of
\* round r; no local training of round r + 1 starts before it.
C2_RoundIsTrainThenAggregate == []C2_Ordered /\ [][C2_Step]_vars

C2_Witness ==
    /\ aggCount = 2
    /\ \E o, q \in Providers :
          localState[o].round = 3 /\ localState[q].round = 2

WeightedAverage(locals) ==
    SumOver(DOMAIN locals,
            [o \in DOMAIN locals |-> locals[o].n_samples * locals[o].params])
      \div SumOver(DOMAIN locals, [o \in DOMAIN locals |-> locals[o].n_samples])

Mean(locals) ==
    SumOver(DOMAIN locals, [o \in DOMAIN locals |-> locals[o].params])
      \div Cardinality(DOMAIN locals)

\* C3: after every aggregation the global parameters are the average of the
\* parameters the data-provider organizations trained in that round,
\* weighted by their sample counts; every count is NUM_UPDATES * BATCH_SIZE,
\* so this is their plain mean.
C3_WeightedAverage ==
    aggCount >= 1 =>
        /\ DOMAIN lastLocals = Providers
        /\ globalParams = roundModel[aggCount]
        /\ roundModel[aggCount] = WeightedAverage(lastLocals)
        /\ \A o \in DOMAIN lastLocals :
              lastLocals[o].n_samples = NUM_UPDATES * BATCH_SIZE
        /\ roundModel[aggCount] = Mean(lastLocals)

C3_Witness ==
    /\ aggCount = NUM_ROUNDS
    /\ \E o, q \in DOMAIN lastLocals :
          lastLocals[o].params + 1 < lastLocals[q].params
    /\ \A o \in DOMAIN lastLocals : lastLocals[o].params # globalParams

\* C4: a local training of the current round starts from the current
\* global parameters, and so did every local training the latest
\* aggregation averaged; the aggregate is therefore the previous global
\* parameters moved by the weighted mean of the organizations' own deltas,
\* whatever the order in which they trained.
C4_StartFromGlobal ==
    /\ \A o \in DOMAIN localState :
          localState[o].round = aggCount + 1 =>
             localState[o].start = globalParams
    /\ aggCount >= 1 =>
          /\ \A o \in DOMAIN lastLocals : lastLocals[o].start = PrevGlobal
          /\ globalParams = PrevGlobal +
                (SumOver(DOMAIN lastLocals,
                    [o \in DOMAIN lastLocals |->
                        lastLocals[o].n_samples *
                           (lastLocals[o].params - PrevGlobal)])
                 \div SumOver(DOMAIN lastLocals,
                    [o \in DOMAIN lastLocals |-> lastLocals[o].n_samples]))

C4_Witness ==
    /\ aggCount = 1
    /\ avgUpdate > 0
    /\ \E o, q \in DOMAIN localState :
          /\ localState[o].round = 2
          /\ localState[q].round = 1
          /\ localState[q].params # globalParams
          /\ localState[o].start = globalParams

\* C6: when a local step of round r has failed, no aggregation of round r
\* is performed: the aggregation count stays r - 1 and the global
\* parameters stay those of round r - 1.
C6_FailureAbortsAggregation ==
    \A f \in failures :
        /\ status = "failed"
        /\ aggCount = f.round - 1
        /\ Len(roundModel) = f.round - 1
        /\ globalParams = (IF f.round = 1 THEN InitModel
                           ELSE roundModel[f.round - 1])

C6_Witness ==
    /\ pc = "error"
    /\ \E f \in failures :
          /\ f.round = 2
          /\ \E o \in DOMAIN localState :
                o # f.org /\ localState[o].round = 2

====
